---- MODULE Spec2Model ----
(***************************************************************************)
(* Model of the rizon-lang language server (src/src/main.rs).              *)
(*                                                                         *)
(* Two parts:                                                              *)
(*  - the position translator / error normalizer rev_result_to_diagnostic, *)
(*    a pure function over UTF-8 byte strings, exercised by SpecPos;       *)
(*  - the session: the did_open / did_change handlers, parse_and_store and *)
(*    the publish to the client, exercised by Spec.  The handlers are      *)
(*    async fns; each runs without interruption up to its only await, the  *)
(*    publish, and several handlers may be suspended there at once.        *)
(***************************************************************************)
EXTENDS Integers, Sequences, FiniteSets, TLC

VARIABLES
    handlers,   \* one record per notification received, in arrival order
    published,  \* what the client has received: sequence of publishDiagnostics
    tokenized,  \* results Lexer::tokenize has returned so far, per text
    parsed,     \* results Parser::parse has returned so far, per text
    crashed,    \* TRUE once a handler has panicked
    env,        \* what the editor and the frontend do in this behaviour
    tr          \* one call of rev_result_to_diagnostic (SpecPos)

vars == <<handlers, published, tokenized, parsed, crashed, env, tr>>

-----------------------------------------------------------------------------
(* Bounds *)

MaxLen == 3       \* longest text given to the translator, in bytes
MaxErrs == 2      \* most located errors in one lexer / parser failure
MaxNotifs == 2    \* notifications received in one behaviour
MaxChanges == 2   \* most content-change payloads in one did_change

-----------------------------------------------------------------------------
(* UTF-8 text.  A text is a sequence of bytes; a Rust String is always     *)
(* valid UTF-8.  The alphabet has a newline, 'a', and the two bytes of     *)
(* U+00E9 (0xC3 0xA9).                                                     *)

Bytes == {10, 97, 195, 169}

IsContinuation(b) == b \in 128..191

RECURSIVE ValidUtf8(_)
ValidUtf8(s) ==
    IF s = <<>> THEN TRUE
    ELSE IF s[1] < 128 THEN ValidUtf8(Tail(s))
    ELSE IF s[1] \in 194..223 /\ Len(s) >= 2 /\ IsContinuation(s[2])
         THEN ValidUtf8(Tail(Tail(s)))
    ELSE FALSE

Texts == {s \in UNION {[1..n -> Bytes] : n \in 0..MaxLen} : ValidUtf8(s)}

\* str::is_char_boundary
IsCharBoundary(text, o) ==
    \/ o = 0
    \/ o = Len(text)
    \/ o < Len(text) /\ ~IsContinuation(text[o + 1])

\* &text[..o] panics unless o is in range and on a char boundary
CanSlice(text, o) == o <= Len(text) /\ IsCharBoundary(text, o)

SliceTo(text, o) == SubSeq(text, 1, o)

\* str::chars: the code points of a valid UTF-8 string
RECURSIVE Chars(_)
Chars(s) ==
    IF s = <<>> THEN <<>>
    ELSE IF s[1] < 128 THEN <<s[1]>> \o Chars(Tail(s))
    ELSE <<(s[1] - 192) * 64 + (s[2] - 128)>> \o Chars(Tail(Tail(s)))

\* .filter(|c| *c == '\n').count()
RECURSIVE NewlineCount(_)
NewlineCount(cs) ==
    IF cs = <<>> THEN 0
    ELSE (IF cs[1] = 10 THEN 1 ELSE 0) + NewlineCount(Tail(cs))

-----------------------------------------------------------------------------
(* Located errors (RizonResult): err is the message, loc an Option<Loc>,   *)
(* written <<>> for None and <<l>> for Some(l).                            *)

Loc(s, e) == [start |-> s, end |-> e]

LexMsgs == {"lex1", "lex2"}

ParseMsgs == {"parse1", "parse2"}

Msgs == LexMsgs \cup ParseMsgs

Spans(text) == {Loc(s, e) : s \in 0..Len(text), e \in 0..Len(text)}

ValidSpans(text) == {l \in Spans(text) : l.start <= l.end}

UnwrapLoc_one(res) == IF res.loc = <<>> THEN Loc(0, 1) ELSE res.loc[1]

\* unwrap_or(Loc::new(0, 0))
UnwrapLoc(res) == IF res.loc = <<>> THEN Loc(0, 0) ELSE res.loc[1]

\* Result of a call: <<>> when it panicked, <<d>> when it returned d.
\* The casts `as u32` are the identity on every offset below 2^32.
rev_result_to_diagnostic_swapped(res, text) ==
    LET loc == UnwrapLoc(res)
    IN  IF ~CanSlice(text, loc.start) \/ ~CanSlice(text, loc.end) THEN <<>>
        ELSE LET line_start == NewlineCount(Chars(SliceTo(text, loc.start)))
                 line_end == NewlineCount(Chars(SliceTo(text, loc.start)))
             IN  << [range |-> [start |-> [line |-> line_start,
                                           character |-> loc.start],
                                end |-> [line |-> line_end,
                                         character |-> loc.end]],
                     severity |-> "ERROR",
                     message |-> res.err] >>

rev_result_to_diagnostic_warning(res, text) ==
    LET loc == UnwrapLoc(res)
    IN  IF ~CanSlice(text, loc.start) \/ ~CanSlice(text, loc.end) THEN <<>>
        ELSE LET line_start == NewlineCount(Chars(SliceTo(text, loc.start)))
                 line_end == NewlineCount(Chars(SliceTo(text, loc.end)))
             IN  << [range |-> [start |-> [line |-> line_start,
                                           character |-> loc.start],
                                end |-> [line |-> line_end,
                                         character |-> loc.end]],
                     severity |-> IF res.err \in ParseMsgs THEN "WARNING" ELSE "ERROR",
                     message |-> res.err] >>

rev_result_to_diagnostic_reversed(res, text) ==
    LET loc == UnwrapLoc(res)
    IN  IF ~CanSlice(text, loc.start) \/ ~CanSlice(text, loc.end) THEN <<>>
        ELSE LET line_start == NewlineCount(Chars(SliceTo(text, loc.start)))
                 line_end == NewlineCount(Chars(SliceTo(text, loc.end)))
             IN  << [range |-> [start |-> [line |-> line_end,
                                           character |-> loc.end],
                                end |-> [line |-> line_start,
                                         character |-> loc.start]],
                     severity |-> "ERROR",
                     message |-> res.err] >>

rev_result_to_diagnostic(res, text) ==
    LET loc == UnwrapLoc(res)
    IN  IF ~CanSlice(text, loc.start) \/ ~CanSlice(text, loc.end) THEN <<>>
        ELSE LET line_start == NewlineCount(Chars(SliceTo(text, loc.start)))
                 line_end == NewlineCount(Chars(SliceTo(text, loc.end)))
             IN  << [range |-> [start |-> [line |-> line_start,
                                           character |-> loc.start],
                                end |-> [line |-> line_end,
                                         character |-> loc.end]],
                     severity |-> "ERROR",
                     message |-> res.err] >>

-----------------------------------------------------------------------------
(* SpecPos: one call of rev_result_to_diagnostic on every text up to       *)
(* MaxLen bytes and every located error whose span lies in the text.       *)

TrInputs ==
    UNION {{[text |-> t, res |-> [loc |-> l, err |-> m], pc |-> "call", out |-> <<>>] :
                l \in {<<>>} \cup {<<sp>> : sp \in ValidSpans(t)}, m \in Msgs} :
           t \in Texts}

TrIdle == [text |-> <<>>, res |-> [loc |-> <<>>, err |-> "lex1"],
           pc |-> "idle", out |-> <<>>]

Translate ==
    /\ tr.pc = "call"
    /\ LET d == rev_result_to_diagnostic(tr.res, tr.text)
       IN  tr' = [tr EXCEPT !.pc = IF d = <<>> THEN "panicked" ELSE "returned",
                            !.out = d]
    /\ UNCHANGED <<handlers, published, tokenized, parsed, crashed, env>>

-----------------------------------------------------------------------------
(* The session.                                                            *)

Uris == {"u1", "u2"}

\* The environments explored: many notifications in flight, each with at
\* most one payload and one error per failure; or one notification with
\* up to MaxChanges payloads and up to MaxErrs errors per failure.
Envs == {[notifs |-> MaxNotifs, changes |-> 1, errs |-> 1],
         [notifs |-> 1, changes |-> MaxChanges, errs |-> MaxErrs]}

\* texts the editor sends: "a\n" and the two-byte U+00E9
DocTexts == {<<97, 10>>, <<195, 169>>}

\* located errors the lexer (parser) may report on a text
LexErrs(text) == {[loc |-> <<>>, err |-> "lex1"],
                  [loc |-> <<Loc(1, Len(text))>>, err |-> "lex2"]}

ParseErrs(text) == {[loc |-> <<>>, err |-> "parse1"],
                    [loc |-> <<Loc(1, Len(text))>>, err |-> "parse2"]}

ErrLists(pool) == UNION {[1..n -> pool] : n \in 1..env.errs}

Ok == [ok |-> TRUE, errs |-> <<>>]

Err(errs) == [ok |-> FALSE, errs |-> errs]

\* Lexer::tokenize(&text): Ok(tks) or Err(errs), errs non-empty
LexResults(text) == {Ok} \cup {Err(e) : e \in ErrLists(LexErrs(text))}

\* Parser::parse(tks): Ok(_) or Err(errs); tks is a function of the text
ParseResults(text) == {Ok} \cup {Err(e) : e \in ErrLists(ParseErrs(text))}

\* TextDocumentContentChangeEvent: range is an Option, <<>> for None
Payloads == {[range |-> r, text |-> t] : r \in {<<>>, <<"r">>}, t \in DocTexts}

ChangeLists == UNION {[1..n -> Payloads] : n \in 0..env.changes}

Last(s) == s[Len(s)]

SeqRange(s) == {s[i] : i \in 1..Len(s)}

Collect_stale(errs, text) ==
    LET t == IF handlers = <<>> \/ Last(handlers).text = <<>>
             THEN text ELSE Last(handlers).text[1]
    IN  IF \E i \in 1..Len(errs) : rev_result_to_diagnostic(errs[i], t) = <<>>
        THEN <<>>
        ELSE << [i \in 1..Len(errs) |-> rev_result_to_diagnostic(errs[i], t)[1]] >>

\* errs.into_iter().map(|e| rev_result_to_diagnostic(e, &text)).collect()
\* <<>> when a call panicked, << diags >> otherwise
Collect(errs, text) ==
    IF \E i \in 1..Len(errs) : rev_result_to_diagnostic(errs[i], text) = <<>>
    THEN <<>>
    ELSE << [i \in 1..Len(errs) |-> rev_result_to_diagnostic(errs[i], text)[1]] >>

Pipeline_mixed(text, lr, pr) ==
    IF ~lr.ok
    THEN [ran |-> <<"tokenize", "parse">>,
          out |-> IF pr.ok \/ Collect(lr.errs, text) = <<>> \/ Collect(pr.errs, text) = <<>>
                  THEN Collect(lr.errs, text)
                  ELSE << Collect(lr.errs, text)[1] \o Collect(pr.errs, text)[1] >>]
    ELSE [ran |-> <<"tokenize", "parse">>,
          out |-> IF pr.ok THEN << <<>> >> ELSE Collect(pr.errs, text)]

Pipeline_first(text, lr, pr) ==
    IF ~lr.ok
    THEN [ran |-> <<"tokenize">>, out |-> Collect(lr.errs, text)]
    ELSE [ran |-> <<"tokenize", "parse">>,
          out |-> IF pr.ok THEN << <<>> >> ELSE Collect(<<pr.errs[1]>>, text)]

\* The body of parse_and_store up to the publish, given what the lexer and
\* the parser return on this text: the frontend calls made, and the
\* diagnostics to publish (<<>> when the handler panicked).
Pipeline(text, lr, pr) ==
    IF ~lr.ok
    THEN [ran |-> <<"tokenize">>, out |-> Collect(lr.errs, text)]
    ELSE [ran |-> <<"tokenize", "parse">>,
          out |-> IF pr.ok THEN << <<>> >> ELSE Collect(pr.errs, text)]

\* The frontend is deterministic: a text already seen gets the same result.
LexChoice(text) ==
    IF tokenized[text] # <<>> THEN {tokenized[text][1]} ELSE LexResults(text)

ParseChoice(text) ==
    IF parsed[text] # <<>> THEN {parsed[text][1]} ELSE ParseResults(text)

Handler(method, uri, changes, text, ran, diags, pc) ==
    [method |-> method, uri |-> uri, changes |-> changes, text |-> text,
     ran |-> ran, diags |-> diags, pc |-> pc, since |-> Len(published)]

\* parse_and_store, from its call to the await of the publish
parse_and_store(method, uri, changes, text) ==
    \E lr \in LexChoice(text) : \E pr \in ParseChoice(text) :
        LET p == Pipeline(text, lr, pr)
        IN  /\ tokenized' = [tokenized EXCEPT ![text] = <<lr>>]
            /\ parsed' = IF "parse" \in SeqRange(p.ran)
                         THEN [parsed EXCEPT ![text] = <<pr>>]
                         ELSE parsed
            /\ IF p.out = <<>>
               THEN /\ handlers' = Append(handlers,
                         Handler(method, uri, changes, <<text>>, p.ran, <<>>, "panicked"))
                    /\ crashed' = TRUE
               ELSE /\ handlers' = Append(handlers,
                         Handler(method, uri, changes, <<text>>, p.ran, p.out[1], "publish"))
                    /\ crashed' = crashed
            /\ UNCHANGED <<published, env, tr>>

did_open(uri, text) ==
    /\ ~crashed
    /\ Len(handlers) < env.notifs
    /\ parse_and_store("did_open", uri, <<>>, text)

did_change_clear(uri, changes) ==
    /\ ~crashed
    /\ Len(handlers) < env.notifs
    /\ IF changes # <<>>
       THEN parse_and_store("did_change", uri, changes, Last(changes).text)
       ELSE /\ handlers' = Append(handlers,
                 Handler("did_change", uri, changes, <<>>, <<>>, <<>>, "publish"))
            /\ UNCHANGED <<published, tokenized, parsed, crashed, env, tr>>

did_change_first(uri, changes) ==
    /\ ~crashed
    /\ Len(handlers) < env.notifs
    /\ IF changes # <<>>
       THEN parse_and_store("did_change", uri, changes, changes[1].text)
       ELSE /\ handlers' = Append(handlers,
                 Handler("did_change", uri, changes, <<>>, <<>>, <<>>, "done"))
            /\ UNCHANGED <<published, tokenized, parsed, crashed, env, tr>>

did_change(uri, changes) ==
    /\ ~crashed
    /\ Len(handlers) < env.notifs
    /\ IF changes # <<>>
       THEN parse_and_store("did_change", uri, changes, Last(changes).text)
       ELSE /\ handlers' = Append(handlers,
                 Handler("did_change", uri, changes, <<>>, <<>>, <<>>, "done"))
            /\ UNCHANGED <<published, tokenized, parsed, crashed, env, tr>>

publish_diagnostics_last_uri(h) ==
    /\ ~crashed
    /\ handlers[h].pc = "publish"
    /\ published' = Append(published,
           [uri |-> Last(handlers).uri, diagnostics |-> handlers[h].diags, by |-> h])
    /\ handlers' = [handlers EXCEPT ![h].pc = "done"]
    /\ UNCHANGED <<tokenized, parsed, crashed, env, tr>>

publish_diagnostics_skip_empty(h) ==
    /\ ~crashed
    /\ handlers[h].pc = "publish"
    /\ published' = IF handlers[h].diags = <<>> THEN published
                    ELSE Append(published,
                           [uri |-> handlers[h].uri, diagnostics |-> handlers[h].diags, by |-> h])
    /\ handlers' = [handlers EXCEPT ![h].pc = "done"]
    /\ UNCHANGED <<tokenized, parsed, crashed, env, tr>>

\* the publish of a suspended handler reaches the client; the handler returns
publish_diagnostics(h) ==
    /\ ~crashed
    /\ handlers[h].pc = "publish"
    /\ published' = Append(published,
           [uri |-> handlers[h].uri, diagnostics |-> handlers[h].diags, by |-> h])
    /\ handlers' = [handlers EXCEPT ![h].pc = "done"]
    /\ UNCHANGED <<tokenized, parsed, crashed, env, tr>>

-----------------------------------------------------------------------------

Init ==
    /\ handlers = <<>>
    /\ published = <<>>
    /\ tokenized = [t \in DocTexts |-> <<>>]
    /\ parsed = [t \in DocTexts |-> <<>>]
    /\ crashed = FALSE
    /\ env \in Envs
    /\ tr = TrIdle

Next ==
    \/ \E uri \in Uris, text \in DocTexts : did_open(uri, text)
    \/ \E uri \in Uris, changes \in ChangeLists : did_change(uri, changes)
    \/ \E h \in 1..Len(handlers) : publish_diagnostics(h)

Spec == Init /\ [][Next]_vars

InitPos ==
    /\ handlers = <<>>
    /\ published = <<>>
    /\ tokenized = [t \in DocTexts |-> <<>>]
    /\ parsed = [t \in DocTexts |-> <<>>]
    /\ crashed = FALSE
    /\ env = [notifs |-> 0, changes |-> 0, errs |-> 0]
    /\ tr \in TrInputs

NextPos == Translate

SpecPos == InitPos /\ [][NextPos]_vars

-----------------------------------------------------------------------------
(* Properties of the position translator (SpecPos)                         *)

\* the span the call translates
TrLoc == UnwrapLoc(tr.res)

\* newline bytes in text[0..o]
NewlinesBefore(text, o) == Cardinality({i \in 1..o : text[i] = 10})

\* byte offset of the start of the line containing offset o
LineStartOffset(text, o) ==
    LET nls == {i \in 1..o : text[i] = 10}
    IN  IF nls = {} THEN 0 ELSE CHOOSE i \in nls : \A j \in nls : j <= i

\* C1: the character of each produced position is the byte offset minus the
\* byte offset of the start of the line containing it.
C1_CharacterIsOffsetInLine ==
    tr.pc = "returned" =>
        /\ tr.out[1].range.start.character
             = TrLoc.start - LineStartOffset(tr.text, TrLoc.start)
        /\ tr.out[1].range.end.character
             = TrLoc.end - LineStartOffset(tr.text, TrLoc.end)

\* C2: the line of each produced position, start and end alike, is exactly
\* the number of newline characters in text[0..o].
C2_LineIsNewlineCount ==
    tr.pc = "returned" =>
        /\ tr.out[1].range.start.line = NewlinesBefore(tr.text, TrLoc.start)
        /\ tr.out[1].range.end.line = NewlinesBefore(tr.text, TrLoc.end)

\* a span that starts after one newline and ends after a second one
C2_Witness ==
    /\ tr.pc = "returned"
    /\ tr.res.loc # <<>>
    /\ tr.out[1].range.start.line = 1
    /\ tr.out[1].range.end.line = 2

\* byte offset of the start of line k: 0, or just after the k-th newline
LineOffset(text, k) ==
    IF k = 0 THEN 0
    ELSE CHOOSE i \in 1..Len(text) : text[i] = 10 /\ NewlinesBefore(text, i) = k

\* position -> byte offset: start offset of the line plus character
OffsetOf(text, pos) == LineOffset(text, pos.line) + pos.character

\* C11: mapping an offset to (line, character) and that position back to a
\* byte offset yields the offset again.
C11_RoundTrip ==
    tr.pc = "returned" =>
        /\ OffsetOf(tr.text, tr.out[1].range.start) = TrLoc.start
        /\ OffsetOf(tr.text, tr.out[1].range.end) = TrLoc.end

\* C12: on every text and every span with start <= end <= len(text) the
\* translation returns a diagnostic; it never panics.
C12_TranslationIsTotal ==
    (tr.pc # "idle" /\ TrLoc.start <= TrLoc.end /\ TrLoc.end <= Len(tr.text))
        => tr.pc # "panicked"

\* C13: an error without a span yields a diagnostic whose range has both
\* ends at line 0, character 0, whatever the text.
C13_NoSpanIsBufferStart ==
    (tr.res.loc = <<>> /\ tr.pc \notin {"idle", "call"}) =>
        /\ tr.pc = "returned"
        /\ Len(tr.out) = 1
        /\ tr.out[1].range.start = [line |-> 0, character |-> 0]
        /\ tr.out[1].range.end = [line |-> 0, character |-> 0]

\* a span-less error translated on a text that starts with a newline and
\* holds a multi-byte character
C13_Witness ==
    /\ tr.pc = "returned"
    /\ tr.res.loc = <<>>
    /\ Len(tr.text) = MaxLen
    /\ tr.text[1] = 10
    /\ \E i \in 1..Len(tr.text) : tr.text[i] >= 128

\* C18: for a span with start <= end <= len(text) the produced range has
\* its start position not after its end position.
C18_RangeWellFormed ==
    (tr.pc = "returned" /\ TrLoc.start <= TrLoc.end /\ TrLoc.end <= Len(tr.text)) =>
        LET r == tr.out[1].range
        IN  /\ r.start.line <= r.end.line
            /\ r.start.line = r.end.line => r.start.character <= r.end.character

\* a non-empty span that starts inside line 0 and ends on line 1
C18_Witness ==
    /\ tr.pc = "returned"
    /\ tr.res.loc # <<>>
    /\ TrLoc.start > 0 /\ TrLoc.start < TrLoc.end
    /\ tr.out[1].range.start.line = 0
    /\ tr.out[1].range.end.line = 1

-----------------------------------------------------------------------------
(* Properties of the session (Spec)                                        *)

PublishedBy(h) == {i \in 1..Len(published) : published[i].by = h}

PublishedFor(uri) == {i \in 1..Len(published) : published[i].uri = uri}

\* what the client shows for a URI: the last set published for it
ClientView(uri) ==
    IF PublishedFor(uri) = {} THEN <<>>
    ELSE << published[CHOOSE i \in PublishedFor(uri) :
                        \A j \in PublishedFor(uri) : j <= i].diagnostics >>

\* handlers that replaced the text of a URI
Replacing(uri) ==
    {h \in 1..Len(handlers) : handlers[h].uri = uri /\ handlers[h].text # <<>>}

LatestText(uri) ==
    handlers[CHOOSE h \in Replacing(uri) : \A g \in Replacing(uri) : g <= h].text[1]

\* the lex-then-parse pipeline on a text the frontend has seen
PipelineOf(text) ==
    Pipeline(text, tokenized[text][1],
             IF parsed[text] = <<>> THEN Ok ELSE parsed[text][1]).out

LexFailed(text) == tokenized[text] # <<>> /\ ~tokenized[text][1].ok

ParseFailed(text) ==
    /\ tokenized[text] # <<>> /\ tokenized[text][1].ok
    /\ parsed[text] # <<>> /\ ~parsed[text][1].ok

Succeeded(text) ==
    /\ tokenized[text] # <<>> /\ tokenized[text][1].ok
    /\ parsed[text] # <<>> /\ parsed[text][1].ok

Quiescent == ~crashed /\ \A h \in 1..Len(handlers) : handlers[h].pc = "done"

\* C3: for one URI, sets are published in the order their notifications
\* arrived.
C3_PublishOrderIsArrivalOrder ==
    \A i, j \in 1..Len(published) :
        (i < j /\ published[i].uri = published[j].uri)
            => published[i].by < published[j].by

\* C4: two changes of one URI, the second arriving before the first has
\* published: once both handlers have returned, the last set published for
\* the URI is the one computed from the second text.
C4_LatestChangeWins ==
    \A h1, h2 \in 1..Len(handlers) :
        ( /\ h1 < h2
          /\ handlers[h1].method = "did_change" /\ handlers[h1].text # <<>>
          /\ handlers[h2].method = "did_change" /\ handlers[h2].text # <<>>
          /\ handlers[h1].uri = handlers[h2].uri
          /\ \A g \in Replacing(handlers[h2].uri) : g <= h2
          /\ \A i \in PublishedBy(h1) : i > handlers[h2].since
          /\ handlers[h1].pc = "done" /\ handlers[h2].pc = "done" )
        => ClientView(handlers[h2].uri) = PipelineOf(handlers[h2].text[1])

\* C5: when the lexer fails on a text the parser is never invoked on it, and
\* every set published for that text has exactly one diagnostic per lexer
\* error, in the lexer's order, and nothing from the parser.
C5_LexFailurePublishesLexErrors ==
    \A h \in 1..Len(handlers) :
        (handlers[h].text # <<>> /\ LexFailed(handlers[h].text[1])) =>
            LET text == handlers[h].text[1]
                errs == tokenized[text][1].errs
            IN  /\ handlers[h].ran = <<"tokenize">>
                /\ parsed[text] = <<>>
                /\ \A i \in PublishedBy(h) :
                    LET d == published[i].diagnostics
                    IN  /\ Len(d) = Len(errs)
                        /\ \A k \in 1..Len(d) :
                            /\ <<d[k]>> = rev_result_to_diagnostic(errs[k], text)
                            /\ d[k].message \notin ParseMsgs

\* a set of two different lexer errors has been published
C5_Witness ==
    \E i \in 1..Len(published) :
        LET h == handlers[published[i].by]
        IN  /\ LexFailed(h.text[1])
            /\ Len(published[i].diagnostics) = 2
            /\ published[i].diagnostics[1] # published[i].diagnostics[2]

\* C6: when the lexer succeeds and the parser fails, every set published
\* for that text has exactly one diagnostic per parser error, in the
\* parser's order, and nothing from the lexer.
C6_ParseFailurePublishesParseErrors ==
    \A h \in 1..Len(handlers) :
        (handlers[h].text # <<>> /\ ParseFailed(handlers[h].text[1])) =>
            LET text == handlers[h].text[1]
                errs == parsed[text][1].errs
            IN  /\ handlers[h].ran = <<"tokenize", "parse">>
                /\ \A i \in PublishedBy(h) :
                    LET d == published[i].diagnostics
                    IN  /\ Len(d) = Len(errs)
                        /\ \A k \in 1..Len(d) :
                            /\ <<d[k]>> = rev_result_to_diagnostic(errs[k], text)
                            /\ d[k].message \notin LexMsgs

\* a set of two different parser errors has been published
C6_Witness ==
    \E i \in 1..Len(published) :
        LET h == handlers[published[i].by]
        IN  /\ ParseFailed(h.text[1])
            /\ Len(published[i].diagnostics) = 2
            /\ published[i].diagnostics[1] # published[i].diagnostics[2]

\* C7: a handler whose text lexes and parses has called the publish, and
\* once it has returned the client has received from it exactly one set,
\* the empty one, for its URI.
C7_SuccessPublishesEmptySet ==
    \A h \in 1..Len(handlers) :
        (handlers[h].text # <<>> /\ Succeeded(handlers[h].text[1])) =>
            /\ handlers[h].pc \in {"publish", "done"}
            /\ handlers[h].diags = <<>>
            /\ handlers[h].pc = "done" =>
                /\ Cardinality(PublishedBy(h)) = 1
                /\ \A i \in PublishedBy(h) :
                    /\ published[i].uri = handlers[h].uri
                    /\ published[i].diagnostics = <<>>

\* a non-empty set for a URI, then a change to valid text whose empty set
\* is now what the client shows for that URI
C7_Witness ==
    \E i, j \in 1..Len(published) :
        /\ i < j
        /\ published[i].uri = published[j].uri
        /\ published[i].diagnostics # <<>>
        /\ published[j].diagnostics = <<>>
        /\ published[i].by < published[j].by
        /\ handlers[published[j].by].method = "did_change"
        /\ ClientView(published[j].uri) = << <<>> >>

\* C8: when no handler is in flight, what the client shows for a URI is the
\* pipeline result of the latest text received for that URI.
C8_LiveSetIsPipelineOfLatestText ==
    Quiescent =>
        \A uri \in Uris :
            Replacing(uri) # {} => ClientView(uri) = PipelineOf(LatestText(uri))

\* C9: a notification that replaces the text, once its handler has ended,
\* has caused exactly one publish, for its URI.
C9_ExactlyOnePublishPerNotification ==
    \A h \in 1..Len(handlers) :
        (handlers[h].text # <<>> /\ handlers[h].pc \in {"done", "panicked"}) =>
            /\ Cardinality(PublishedBy(h)) = 1
            /\ \A i \in PublishedBy(h) : published[i].uri = handlers[h].uri

\* C10: what a change notification publishes is the pipeline result of the
\* text of its last payload; the other payloads have no effect.
C10_LastPayloadDecides ==
    \A i \in 1..Len(published) :
        LET h == handlers[published[i].by]
        IN  (h.method = "did_change" /\ h.changes # <<>>) =>
                /\ h.text = <<Last(h.changes).text>>
                /\ published[i].uri = h.uri
                /\ <<published[i].diagnostics>> = PipelineOf(Last(h.changes).text)

\* a published non-empty set of a change whose first payload carries a range
\* and another text than the last
C10_Witness ==
    \E i \in 1..Len(published) :
        LET h == handlers[published[i].by]
        IN  /\ h.method = "did_change"
            /\ Len(h.changes) >= 2
            /\ h.changes[1].text # Last(h.changes).text
            /\ h.changes[1].range # <<>>
            /\ published[i].diagnostics # <<>>


\* the located errors the frontend reported on a text it has seen
ErrorsOf(text) ==
    IF LexFailed(text) THEN tokenized[text][1].errs
    ELSE IF ParseFailed(text) THEN parsed[text][1].errs
    ELSE <<>>

\* C14: every diagnostic of every published set has severity Error and the
\* message of the lexer or parser error it comes from, unchanged.
C14_SeverityAndMessage ==
    \A i \in 1..Len(published) :
        LET h == handlers[published[i].by]
            d == published[i].diagnostics
            errs == ErrorsOf(h.text[1])
        IN  /\ Len(d) = Len(errs)
            /\ \A k \in 1..Len(d) :
                /\ d[k].severity = "ERROR"
                /\ d[k].message = errs[k].err

\* a lexer error and a parser error have both been published
C14_Witness ==
    \E i, j \in 1..Len(published) :
        /\ published[i].diagnostics # <<>> /\ published[j].diagnostics # <<>>
        /\ published[i].diagnostics[1].message \in LexMsgs
        /\ published[j].diagnostics[1].message \in ParseMsgs

\* the URI of the notification whose handler takes the step
StepUri ==
    IF Len(handlers') > Len(handlers) THEN Last(handlers').uri
    ELSE handlers[CHOOSE h \in 1..Len(handlers) : handlers'[h] # handlers[h]].uri

LatestTextOpt(uri) == IF Replacing(uri) = {} THEN <<>> ELSE <<LatestText(uri)>>

\* C15: a step of a handler for one URI leaves what the client shows for
\* every other URI, and the latest text of every other URI, unchanged.
C15_OtherUrisUnchanged ==
    [][\A uri \in Uris :
          (handlers' # handlers /\ uri # StepUri) =>
              /\ ClientView(uri)' = ClientView(uri)
              /\ LatestTextOpt(uri)' = LatestTextOpt(uri)]_vars

\* handlers of the two URIs overlapped and the client shows a different
\* set for each
C15_Witness ==
    /\ Len(handlers) >= 2
    /\ handlers[1].uri # handlers[2].uri
    /\ handlers[2].since = 0
    /\ ClientView(handlers[1].uri) # <<>>
    /\ ClientView(handlers[2].uri) # <<>>
    /\ ClientView(handlers[1].uri) # ClientView(handlers[2].uri)

\* C16: every record of a published set, both ends of its range included,
\* is the translation of one frontend error against the text of the
\* notification that triggered the publish.
C16_SingleSnapshot ==
    \A i \in 1..Len(published) :
        LET h == handlers[published[i].by]
            d == published[i].diagnostics
            errs == ErrorsOf(h.text[1])
        IN  /\ published[i].uri = h.uri
            /\ Len(d) = Len(errs)
            /\ \A k \in 1..Len(d) :
                <<d[k]>> = rev_result_to_diagnostic(errs[k], h.text[1])

\* two overlapping handlers of one URI with different texts, and a published
\* set with a position past line 0
C16_Witness ==
    \E i \in 1..Len(published) : \E g \in 1..Len(handlers) :
        LET h == handlers[published[i].by]
        IN  /\ g # published[i].by
            /\ handlers[g].uri = h.uri
            /\ handlers[g].text # <<>> /\ handlers[g].text # h.text
            /\ handlers[2].since = 0
            /\ published[i].diagnostics # <<>>
            /\ published[i].diagnostics[1].range.end.line = 1

\* C17: a change notification without payloads runs neither the lexer nor
\* the parser, publishes nothing and leaves what the client shows unchanged.
C17_EmptyChangeIsNoOp ==
    [][(/\ Len(handlers') > Len(handlers)
        /\ Last(handlers').method = "did_change"
        /\ Last(handlers').changes = <<>>) =>
           /\ Last(handlers').pc = "done"
           /\ Last(handlers').ran = <<>>
           /\ UNCHANGED <<published, tokenized, parsed>>
           /\ \A uri \in Uris : ClientView(uri)' = ClientView(uri)]_vars

\* an empty change arrived for a URI whose non-empty set is still shown
C17_Witness ==
    \E h \in 1..Len(handlers) :
        /\ handlers[h].method = "did_change"
        /\ handlers[h].changes = <<>>
        /\ PublishedBy(h) = {}
        /\ ClientView(handlers[h].uri) # <<>>
        /\ ClientView(handlers[h].uri) # << <<>> >>

====
